---- MODULE Spec2Model ----
(***************************************************************************)
(* A model of the rpocket client library: the key-value storage and the    *)
(* auth state kept in it, the builder and its layer stack, the service     *)
(* chain ending in the transport, the send wrapper that decorates a        *)
(* request and classifies the response, and the record / admin services    *)
(* built on top of it.                                                     *)
(***************************************************************************)
EXTENDS Integers, Sequences, FiniteSets, TLC

VARIABLES
    open,       \* whether the callers still start new calls
    layer,      \* PocketBaseBuilder.layer: Identity or a nested Stack
    client,     \* PocketBase.client: the built service chain, outermost first
    built,      \* whether build() has run
    lang,       \* the language given to the builder
    registered, \* the layers given to layer(), in the order of the calls
    storage,    \* the Storage map: key -> stored string (domain = keys present)
    call,       \* the public operation now running, with its config
    last,       \* what the last public operation did and returned
    pc,         \* per task of the auth-state specification: its position
    job         \* per task of the auth-state specification: the running call

vars == <<open, layer, client, built, lang, registered, storage, call, last, pc, job>>

(***************************************************************************)
(* Bounds of the model.                                                    *)
(***************************************************************************)
MaxLayers == 2
MaxTasks == 2
MaxCalls == 4

(***************************************************************************)
(* Program constants.                                                      *)
(***************************************************************************)
TOKEN_KEY == "pb_auth"
USER_OR_ADMIN_KEY == "pb_user_or_admin"
DefaultLang == "en"

None == [none |-> TRUE]
Some(v) == [some |-> v]
IsSome(o) == "some" \in DOMAIN o

(***************************************************************************)
(* Result<T, RPocketError> and the error taxonomy.                         *)
(***************************************************************************)
Ok(v) == [ok |-> TRUE, value |-> v]
Err(e) == [ok |-> FALSE, error |-> e]
MutexError == [kind |-> "MutexError"]
SerdeError == [kind |-> "SerdeError"]
RequestError == [kind |-> "RequestError"]
UrlError == [kind |-> "UrlError"]
APIErrorOf(api) == [kind |-> "APIError", api |-> api]

(***************************************************************************)
(* JSON.  A JSON object is a record of its keys; a body that is not JSON   *)
(* (empty, HTML) is a record with the one key raw.  Throughout the module  *)
(* the fields of a record are written in the order in which TLC keeps      *)
(* them, the order in which the names first occur in the module.           *)
(***************************************************************************)
JsonNull == [null |-> TRUE]
\* a JSON object with each key once; a text that is no JSON is [raw |-> ..],
\* an object with a key written twice is [repeated |-> ..].
IsJsonObject(b) == "raw" \notin DOMAIN b /\ "repeated" \notin DOMAIN b /\ b # JsonNull
HasKeys(b, ks) == IsJsonObject(b) /\ ks \subseteq DOMAIN b
Without(obj, ks) == [k \in DOMAIN obj \ ks |-> obj[k]]

BaseKeys == {"id", "created", "updated"}
AdminKeys == BaseKeys \cup {"avatar", "email"}
RecordKeys == BaseKeys \cup {"collectionId", "collectionName"}

\* serde: #[derive(Deserialize)] of model::Admin (base flattened, camelCase).
AdminFromJson(obj) ==
    IF HasKeys(obj, AdminKeys)
    THEN Ok([base |-> [id |-> obj.id, created |-> obj.created, updated |-> obj.updated],
             avatar |-> obj.avatar, email |-> obj.email])
    ELSE Err(SerdeError)

\* serde: #[derive(Deserialize)] of model::Record: the keys no field takes
\* are collected in data; a missing or null expand is None.
RecordFromJson(obj) ==
    IF HasKeys(obj, RecordKeys)
    THEN Ok([base |-> [id |-> obj.id, created |-> obj.created, updated |-> obj.updated],
             collection_id |-> obj.collectionId,
             collection_name |-> obj.collectionName,
             data |-> Without(obj, RecordKeys \cup {"expand"}),
             expand |-> None])
    ELSE Err(SerdeError)

\* serde: #[derive(Serialize)] of model::Admin.
AdminToJson(a) ==
    [id |-> a.base.id, created |-> a.base.created, updated |-> a.base.updated,
     avatar |-> a.avatar, email |-> a.email]

\* the fields of model::Record that Serialize writes under fixed keys
\* (expand: None is written as null).
RecordFixedJson(r) ==
    [id |-> r.base.id, created |-> r.base.created, updated |-> r.base.updated,
     collectionId |-> r.collection_id, collectionName |-> r.collection_name,
     expand |-> JsonNull]

\* serde: #[derive(Serialize)] of model::Record: the fixed keys and the
\* entries of the flattened data map, each written as it comes.  A data key
\* equal to a fixed key is written a second time: the document then has
\* that key twice.
RecordToJson(r) ==
    IF DOMAIN r.data \cap DOMAIN RecordFixedJson(r) = {}
    THEN RecordFixedJson(r) @@ r.data
    ELSE [repeated |-> DOMAIN r.data \cap DOMAIN RecordFixedJson(r),
          fixed |-> RecordFixedJson(r), flattened |-> r.data]

(***************************************************************************)
(* AuthPayload: #[serde(untagged)] enum { User(Record), Admin(Admin) }.    *)
(***************************************************************************)
User(r) == [variant |-> "User", inner |-> r]
Admin(a) == [variant |-> "Admin", inner |-> a]

\* Serialize of the untagged enum: the inner value alone.
AuthPayloadToJson(p) ==
    IF p.variant = "User" THEN RecordToJson(p.inner) ELSE AdminToJson(p.inner)

\* the variants tried in the other order.
AuthPayloadFromJson_AdminFirst(obj) ==
    IF AdminFromJson(obj).ok THEN Ok(Admin(AdminFromJson(obj).value))
    ELSE IF RecordFromJson(obj).ok THEN Ok(User(RecordFromJson(obj).value))
    ELSE Err(SerdeError)

\* Deserialize of the untagged enum: the first variant that fits, in
\* declaration order.
AuthPayloadFromJson(obj) ==
    IF RecordFromJson(obj).ok THEN Ok(User(RecordFromJson(obj).value))
    ELSE IF AdminFromJson(obj).ok THEN Ok(Admin(AdminFromJson(obj).value))
    ELSE Err(SerdeError)

\* a decoder that fills the fields an error body lacks.
APIErrorFromJson_Lenient(b) ==
    IF HasKeys(b, {"message"})
    THEN Ok([data |-> IF "data" \in DOMAIN b THEN b.data ELSE "{}",
             code |-> IF "code" \in DOMAIN b THEN b.code ELSE 0,
             message |-> b.message])
    ELSE Err(RequestError)

\* error::APIError { code, message, data }.
APIErrorFromJson(b) ==
    IF HasKeys(b, {"code", "message", "data"})
    THEN Ok([data |-> b.data, code |-> b.code, message |-> b.message])
    ELSE Err(RequestError)

(***************************************************************************)
(* Storage: get / set / delete of the in-memory map, one call at a time.   *)
(***************************************************************************)
StorageGet(s, key) == IF key \in DOMAIN s THEN Some(s[key]) ELSE None

StorageSet(s, key, value) ==
    [k \in DOMAIN s \cup {key} |-> IF k = key THEN value ELSE s[k]]

\* a delete that leaves the entry in place.
StorageDelete_Keeping(s, key) == s

\* MemoryStorage::delete: the entry is removed; a missing key is no error.
StorageDelete(s, key) == Without(s, {key})

(***************************************************************************)
(* The auth state over a Storage.  A storage call can fail (a poisoned     *)
(* lock, or another Storage implementation): fail_at is the index of the   *)
(* storage call of the operation that fails, 0 when none does.             *)
(***************************************************************************)
\* the identity written before the token.
SaveOps_IdentityFirst(token, payload) ==
    << [value |-> AuthPayloadToJson(payload), key |-> USER_OR_ADMIN_KEY, op |-> "set"],
       [value |-> token, key |-> TOKEN_KEY, op |-> "set"] >>

\* save_token, then save_user_or_admin: the storage calls of save, in order.
SaveOps(token, payload) ==
    << [value |-> token, key |-> TOKEN_KEY, op |-> "set"],
       [value |-> AuthPayloadToJson(payload), key |-> USER_OR_ADMIN_KEY, op |-> "set"] >>

\* a clear that forgets the identity.
ClearOps_TokenOnly ==
    << [value |-> "", key |-> TOKEN_KEY, op |-> "delete"] >>

\* the storage calls of clear, in order.
ClearOps ==
    << [value |-> "", key |-> TOKEN_KEY, op |-> "delete"],
       [value |-> "", key |-> USER_OR_ADMIN_KEY, op |-> "delete"] >>

ApplyOp(s, o) ==
    IF o.op = "set" THEN StorageSet(s, o.key, o.value) ELSE StorageDelete(s, o.key)

RECURSIVE ApplyOps(_, _, _)
\* the storage after the first n calls of ops.
ApplyOps(s, ops, n) ==
    IF n = 0 THEN s ELSE ApplyOp(ApplyOps(s, ops, n - 1), ops[n])

\* `?` after each storage call: the first failure ends the operation.
RunOps(s, ops, fail_at) ==
    IF fail_at \in 1..Len(ops)
    THEN [storage |-> ApplyOps(s, ops, fail_at - 1), result |-> Err(MutexError)]
    ELSE [storage |-> ApplyOps(s, ops, Len(ops)), result |-> Ok("unit")]

AuthStateSave(s, token, payload, fail_at) == RunOps(s, SaveOps(token, payload), fail_at)

\* a clear that reports a key it does not find as an error.
AuthStateClear_FailsOnEmpty(s, fail_at) ==
    IF TOKEN_KEY \notin DOMAIN s
    THEN [storage |-> s, result |-> Err(MutexError)]
    ELSE RunOps(s, ClearOps, fail_at)

AuthStateClear(s, fail_at) == RunOps(s, ClearOps, fail_at)

\* a token getter that reads the identity's key.
AuthStateToken_WrongKey(s, fails) ==
    IF fails THEN Err(MutexError) ELSE Ok(StorageGet(s, USER_OR_ADMIN_KEY))

AuthStateToken(s, fails) ==
    IF fails THEN Err(MutexError) ELSE Ok(StorageGet(s, TOKEN_KEY))

AuthStateUserOrAdmin(s, fails) ==
    IF fails THEN Err(MutexError)
    ELSE IF ~IsSome(StorageGet(s, USER_OR_ADMIN_KEY)) THEN Ok(None)
    ELSE LET p == AuthPayloadFromJson(StorageGet(s, USER_OR_ADMIN_KEY).some)
         IN  IF p.ok THEN Ok(Some(p.value)) ELSE p

(***************************************************************************)
(* The builder's layer stack and the service chain it builds.  A service   *)
(* chain is the sequence of its layers, outermost first; the empty         *)
(* sequence is PocketBaseService (the transport) alone.                    *)
(***************************************************************************)
Identity == [kind |-> "Identity"]
Stack(inner, outer) == [kind |-> "Stack", inner |-> inner, outer |-> outer]

\* PocketBaseBuilder::layer: Stack::new(layer, self.layer).
BuilderLayer(L, t) == Stack(t, L)

RECURSIVE LayerApply_Inward(_, _)
\* the nesting turned round: inner.layer(outer.layer(service)).
LayerApply_Inward(L, service) ==
    IF L.kind = "Identity" THEN service
    ELSE <<L.inner>> \o LayerApply_Inward(L.outer, service)

RECURSIVE LayerApply(_, _)
\* Layer::layer of Identity (the service itself) and of Stack
\* (outer.layer(inner.layer(service))).
LayerApply(L, service) ==
    IF L.kind = "Identity" THEN service
    ELSE LayerApply(L.outer, <<L.inner>> \o service)

\* PocketBaseBuilder::build: self.layer.layer(PocketBaseService).
BuilderBuild(L) == LayerApply(L, <<>>)

(***************************************************************************)
(* Requests, responses and the call through the chain.                     *)
(***************************************************************************)
\* A token with a line break in it: no HTTP header can carry it.
BadToken == "t\n"

\* HeaderValue::try_from: a string with a control character is no header
\* value.
IsHeaderValue(v) == v # BadToken

\* RequestBuilder::header: the header is appended, or, when the value is no
\* header value, the builder keeps the error for build() to report.
AddHeader(req, name, value) ==
    IF IsHeaderValue(value)
    THEN [req EXCEPT !.headers = Append(@, <<name, value>>)]
    ELSE [req EXCEPT !.build_err = TRUE]

HeaderValues(req, name) ==
    SelectSeq(req.headers, LAMBDA h : h[1] = name)

\* the upper end of the success range taken as inclusive.
IsSuccess_Inclusive(status) == status >= 200 /\ status <= 300

\* StatusCode::is_success.
IsSuccess(status) == status >= 200 /\ status < 300

\* a transport that executes a request whose build failed.
TransportCall_SendingBroken(req, env) ==
    IF env.fail = "transport"
    THEN [result |-> Err(RequestError), executed |-> <<req>>]
    ELSE [result |-> Ok([status |-> env.status, body |-> env.body, via |-> <<>>]),
          executed |-> <<req>>]

\* a transport that tries a second time when the first attempt fails.
TransportCall_Retrying(req, env) ==
    IF req.build_err
    THEN [result |-> Err(RequestError), executed |-> <<>>]
    ELSE IF env.fail = "transport"
    THEN [result |-> Err(RequestError), executed |-> <<req, req>>]
    ELSE [result |-> Ok([status |-> env.status, body |-> env.body, via |-> <<>>]),
          executed |-> <<req>>]

\* a transport that turns a status outside [200,300) into an error itself.
TransportCall_Classifying(req, env) ==
    IF req.build_err
    THEN [result |-> Err(RequestError), executed |-> <<>>]
    ELSE IF env.fail = "transport"
    THEN [result |-> Err(RequestError), executed |-> <<req>>]
    ELSE IF ~IsSuccess(env.status)
    THEN [result |-> Err(APIErrorOf([data |-> "{}", code |-> env.status, message |-> ""])),
          executed |-> <<req>>]
    ELSE [result |-> Ok([status |-> env.status, body |-> env.body, via |-> <<>>]),
          executed |-> <<req>>]

\* PocketBaseService::call: build the request, execute it once, wrap the
\* response.  executed lists the requests handed to the HTTP client.
TransportCall(req, env) ==
    IF req.build_err
    THEN [result |-> Err(RequestError), executed |-> <<>>]
    ELSE IF env.fail = "transport"
    THEN [result |-> Err(RequestError), executed |-> <<req>>]
    ELSE [result |-> Ok([status |-> env.status, body |-> env.body, via |-> <<>>]),
          executed |-> <<req>>]

\* A layer's call: it marks the request and calls the inner service ...
LayerRequest(t, req) == AddHeader(req, "X-Test", t)

\* ... and the response comes back through it.
LayerResponse(t, out) ==
    IF out.result.ok
    THEN [out EXCEPT !.result = Ok([out.result.value EXCEPT !.via = Append(@, t)])]
    ELSE out

RECURSIVE ServiceCall(_, _, _)
ServiceCall(service, req, env) ==
    IF service = <<>> THEN TransportCall(req, env)
    ELSE LayerResponse(Head(service),
                       ServiceCall(Tail(service), LayerRequest(Head(service), req), env))

\* the body decides: a body shaped like an API error is returned as one.
ClassifyResponse_ByBody(res) ==
    IF ~res.ok THEN res
    ELSE IF ~IsSuccess(res.value.status) \/ APIErrorFromJson(res.value.body).ok
    THEN LET api == APIErrorFromJson(res.value.body)
         IN  IF api.ok THEN Err(APIErrorOf(api.value)) ELSE Err(api.error)
    ELSE Ok(res.value)

\* send_request, after the call: the status decides.
ClassifyResponse(res) ==
    IF ~res.ok THEN res
    ELSE IF ~IsSuccess(res.value.status)
    THEN LET api == APIErrorFromJson(res.value.body)
         IN  IF api.ok THEN Err(APIErrorOf(api.value)) ELSE Err(api.error)
    ELSE Ok(res.value)

\* The methods of the service chain that send_request invokes, in order.
ChainInvocations == <<"call">>

\* a send that announces the default locale whatever the client's is.
SendRequest_DefaultLang(cl, lg, s, req, env) ==
    LET token == AuthStateToken(s, env.fail = "token")
        r1 == AddHeader(req, "Accept-Language", DefaultLang)
    IN  IF ~token.ok
        THEN [result |-> Err(token.error), executed |-> <<>>, invoked |-> <<>>,
              entered |-> <<>>, returned |-> <<>>]
        ELSE LET r2 == IF IsSome(token.value)
                       THEN AddHeader(r1, "Authorization", token.value.some)
                       ELSE r1
                 out == ServiceCall(cl, r2, env)
             IN  [result |-> ClassifyResponse(out.result),
                  executed |-> out.executed,
                  invoked |-> ChainInvocations,
                  entered |-> <<r2>>,
                  returned |-> <<out.result>>]

\* PocketBase::send_request.  entered is the request handed to the service
\* chain and returned what the chain gave back, before the status is looked
\* at.
SendRequest(cl, lg, s, req, env) ==
    LET token == AuthStateToken(s, env.fail = "token")
        r1 == AddHeader(req, "Accept-Language", lg)
    IN  IF ~token.ok
        THEN [result |-> Err(token.error), executed |-> <<>>, invoked |-> <<>>,
              entered |-> <<>>, returned |-> <<>>]
        ELSE LET r2 == IF IsSome(token.value)
                       THEN AddHeader(r1, "Authorization", token.value.some)
                       ELSE r1
                 out == ServiceCall(cl, r2, env)
             IN  [result |-> ClassifyResponse(out.result),
                  executed |-> out.executed,
                  invoked |-> ChainInvocations,
                  entered |-> <<r2>>,
                  returned |-> <<out.result>>]

(***************************************************************************)
(* Inputs of the model.                                                    *)
(***************************************************************************)
Tokens == {"t1", "t2"}
SendTokens == Tokens \cup {BadToken}
Langs == {"en", "fr"}
LayerIds == {"A", "B"}
BaseUrl == "http://localhost:8080"

EmptyBody == [raw |-> ""]
HtmlBody == [raw |-> "<html>"]
ApiErrorBodies ==
    { [data |-> "{}", code |-> 400, message |-> "Bad Request"],
      [data |-> "{\"id\":1}", code |-> 404, message |-> "Not Found", hint |-> "x"] }
PartialErrorBody == [message |-> "Bad Gateway"]

Statuses == {199, 200, 204, 299, 300, 400}

FailEnv(f) == [status |-> 0, fail |-> f, body |-> EmptyBody, save_fail_at |-> 0]
ResponseEnv(st, b) == [status |-> st, fail |-> "none", body |-> b, save_fail_at |-> 0]

SendBodies == {EmptyBody, HtmlBody, PartialErrorBody} \cup ApiErrorBodies
SendEnvs ==
    {FailEnv("token"), FailEnv("transport")}
        \cup {ResponseEnv(st, b) : st \in Statuses, b \in SendBodies}

\* PocketBaseClient::request_builder(method, url); build_err: the builder
\* holds an error (an invalid header or body), which build() reports.
RequestBuilder(method, url, build_err) ==
    [headers |-> <<>>, build_err |-> build_err, body |-> None, method |-> method,
     url |-> url, query |-> <<>>]

Collection == "users"
AuthKinds == {"auth-with-password", "auth-with-oauth2", "auth-refresh"}

AdminJson(id) ==
    [id |-> id, created |-> "2022-06-22", updated |-> "2022-06-22",
     avatar |-> 0, email |-> "test@example.com"]
RecordJson(id) ==
    [id |-> id, created |-> "2022-06-25", updated |-> "2022-06-25",
     collectionId |-> "c1", collectionName |-> Collection]

\* auth success bodies; the second record also carries the keys of an admin.
AdminAuthBodies ==
    { [token |-> "t1", admin |-> AdminJson("a1"), note |-> "n"] }
RecordAuthBodies ==
    { [token |-> "t1", record |-> RecordJson("r1") @@ [name |-> "John"]],
      [token |-> "t2", record |-> RecordJson("r2") @@ [avatar |-> 1, email |-> "j@example.com"],
       meta |-> [isNew |-> TRUE]] }
TokenOnlyBody == [token |-> "t1"]
BadRequestBody == [data |-> "{}", code |-> 400, message |-> "Bad Request"]
AuthBodies(svc) == IF svc = "admin" THEN AdminAuthBodies ELSE RecordAuthBodies

SaveEnv(b, n) == [status |-> 200, fail |-> "none", body |-> b, save_fail_at |-> n]

PreSendFailures == {"url", "token", "build", "transport"}

\* what can happen to an authentication call: a failure before the response,
\* a rejection, a success body that does not decode, a success, and a
\* success whose save fails at its first or second storage call.
AuthEnvs(svc) ==
    {FailEnv(f) : f \in PreSendFailures}
        \cup {ResponseEnv(400, BadRequestBody), ResponseEnv(200, TokenOnlyBody)}
        \cup {ResponseEnv(200, b) : b \in AuthBodies(svc)}
        \cup {SaveEnv(b, n) : b \in AuthBodies(svc), n \in 1..2}

\* query parameters of the caller: none, or pairs with a key given twice.
ExtraQueries ==
    {<<>>, << <<"expand", "a">>, <<"sort", "x">>, <<"expand", "b">> >>}

AuthConfigs ==
    [body : {<<>>}, without_saving : BOOLEAN, T : {"std", "unfit"},
     query_params : ExtraQueries]

AuthServices ==
    {<<"record", k>> : k \in AuthKinds}
        \cup {<<"admin", k>> : k \in {"auth-with-password", "auth-refresh"}}

DEFAULT_PER_PAGE == 30
DEFAULT_PAGE == 1

PlainServices ==
    {<<svc, op>> : svc \in {"record", "admin"},
                   op \in {"get_list", "get_one", "mutate", "delete",
                           "request-password-reset", "confirm-password-reset"}}
        \cup {<<"record", "list_auth_methods">>}

\* a body that the operation's result type decodes.
FitBody(svc, op) ==
    IF op = "get_list"
    THEN [page |-> 1, perPage |-> 30, totalItems |-> 0, items |-> <<>>]
    ELSE IF op = "list_auth_methods"
    THEN [usernamePassword |-> TRUE, emailPassword |-> TRUE, authProviders |-> <<>>]
    ELSE IF op \in {"delete", "request-password-reset", "confirm-password-reset"}
    THEN EmptyBody
    ELSE IF svc = "admin" THEN AdminJson("a1") ELSE RecordJson("r1")

PlainEnvs(svc, op) ==
    {FailEnv(f) : f \in PreSendFailures}
        \cup {ResponseEnv(200, FitBody(svc, op)), ResponseEnv(200, HtmlBody),
              ResponseEnv(204, EmptyBody), ResponseEnv(400, BadRequestBody)}

\* bodies of mutate: a body without an id, and one with an id of its own
\* (as a Record has).
MutateBodies == {[title |-> "t"], [id |-> "r9", title |-> "t"]}

PlainConfigs(op) ==
    [id : IF op = "mutate" THEN {None, Some("X")} ELSE {Some("X")},
     body : IF op = "mutate" THEN MutateBodies ELSE {[title |-> "t"]},
     query_params : ExtraQueries,
     page : IF op = "get_list" THEN {DEFAULT_PAGE, 2} ELSE {DEFAULT_PAGE},
     per_page : IF op = "get_list" THEN {1, DEFAULT_PER_PAGE} ELSE {DEFAULT_PER_PAGE}]

\* what the application can save: a token with an admin or with a record.
Logins ==
    { [token |-> "t1", payload |-> Admin(AdminFromJson(AdminJson("a1")).value)],
      [token |-> "t2", payload |-> User(RecordFromJson(RecordJson("r1")).value)] }

\* a record built by the application, with a data entry named like a field.
ClashingRecord ==
    [RecordFromJson(RecordJson("r1")).value EXCEPT !.data = [id |-> "r2"]]

\* what save can be called with: a login, or any other AuthPayload value.
SaveInputs == Logins \cup {[token |-> "t2", payload |-> User(ClashingRecord)]}

NoOperation == [op |-> "none"]

(***************************************************************************)
(* The record and admin services.  A URL is the sequence of its path       *)
(* segments below the base URL.                                            *)
(***************************************************************************)
\* the URL of an authentication endpoint.
AuthUrl(svc, collection, kind) ==
    IF svc = "admin" THEN <<"api", "admins", kind>>
    ELSE <<"api", "collections", collection, kind>>

\* Serialize of the auth configs: the named fields, then the flattened body;
\* query_params and without_saving are skipped.
AuthConfigJson(kind, cfg) ==
    IF kind = "auth-with-password"
    THEN [identity |-> "test", password |-> "12345678"] @@ cfg.body
    ELSE IF kind = "auth-with-oauth2"
    THEN [code |-> "c", provider |-> "p", codeVerifier |-> "v", redirectUrl |-> "r"]
             @@ cfg.body
    ELSE cfg.body

WithQuery(req, params) == [req EXCEPT !.query = @ \o params]
\* RequestBuilder::json: the body, and a JSON Content-Type unless the request
\* has a Content-Type already.
WithJson(req, json) ==
    LET r == [req EXCEPT !.body = Some(json)]
    IN  IF HeaderValues(req, "Content-Type") = <<>>
        THEN AddHeader(r, "Content-Type", "application/json")
        ELSE r

\* the request of an authentication call: the admin service passes the
\* query parameters of the config on, the record service does not.
AuthRequest(svc, collection, kind, cfg, build_err) ==
    LET r0 == AddHeader(RequestBuilder("POST", AuthUrl(svc, collection, kind), build_err),
                        "Content-Type", "application/json")
        r1 == IF svc = "admin" THEN WithQuery(r0, cfg.query_params) ELSE r0
    IN  WithJson(r1, AuthConfigJson(kind, cfg))

\* Deserialize of AdminAuthResponse { token, admin, extra (flattened) }.
AdminAuthResponseFromJson(b) ==
    IF HasKeys(b, {"token", "admin"}) /\ AdminFromJson(b.admin).ok
    THEN Ok([token |-> b.token, admin |-> AdminFromJson(b.admin).value,
             extra |-> Without(b, {"token", "admin"})])
    ELSE Err(SerdeError)

\* Deserialize of RecordAuthResponse<Record> { token, record, meta }.
RecordAuthResponseFromJson(b) ==
    IF HasKeys(b, {"token", "record"}) /\ RecordFromJson(b.record).ok
    THEN Ok([token |-> b.token, record |-> RecordFromJson(b.record).value,
             meta |-> IF "meta" \in DOMAIN b /\ b.meta # JsonNull
                      THEN Some(b.meta) ELSE None])
    ELSE Err(SerdeError)

AuthResponseFromJson(svc, b) ==
    IF svc = "admin" THEN AdminAuthResponseFromJson(b) ELSE RecordAuthResponseFromJson(b)

\* serde_json::to_value of the auth response.
AuthResponseToJson(svc, r) ==
    IF svc = "admin"
    THEN [token |-> r.token, admin |-> AdminToJson(r.admin)] @@ r.extra
    ELSE [token |-> r.token, record |-> RecordToJson(r.record),
          meta |-> IF IsSome(r.meta) THEN r.meta.some ELSE JsonNull]

\* the identity of an auth response, as the service wraps it.
AuthPayloadOf(svc, r) == IF svc = "admin" THEN Admin(r.admin) ELSE User(r.record)

\* Deserialize into the caller's type T: "std" is the service's own auth
\* response type, "unfit" a type the payload does not fit.
AuthResponseAs(T, svc, b, error) ==
    IF T = "std" /\ AuthResponseFromJson(svc, b).ok
    THEN AuthResponseFromJson(svc, b)
    ELSE Err(error)

\* a save that stores the token of the body before it decodes the whole.
SaveAuthResponse_TokenFirst(svc, T, s, response, save_fail_at) ==
    LET decoded == AuthResponseFromJson(svc, response.body)
        saved == AuthStateSave(s, response.body.token,
                               AuthPayloadOf(svc, decoded.value), save_fail_at)
    IN  IF ~decoded.ok
        THEN [storage |-> StorageSet(s, TOKEN_KEY, response.body.token),
              result |-> Err(RequestError)]
        ELSE IF ~saved.result.ok
        THEN [storage |-> saved.storage, result |-> saved.result]
        ELSE [storage |-> saved.storage,
              result |-> AuthResponseAs(T, svc, AuthResponseToJson(svc, decoded.value),
                                        SerdeError)]

\* save_auth_response: decode, save token and identity, then convert the
\* response to the caller's type.
SaveAuthResponse(svc, T, s, response, save_fail_at) ==
    LET decoded == AuthResponseFromJson(svc, response.body)
    IN  IF ~decoded.ok
        THEN [storage |-> s, result |-> Err(RequestError)]
        ELSE LET saved == AuthStateSave(s, decoded.value.token,
                                        AuthPayloadOf(svc, decoded.value), save_fail_at)
             IN  IF ~saved.result.ok
                 THEN [storage |-> saved.storage, result |-> saved.result]
                 ELSE [storage |-> saved.storage,
                       result |-> AuthResponseAs(T, svc,
                                      AuthResponseToJson(svc, decoded.value), SerdeError)]

NotSent ==
    [result |-> Err(UrlError), executed |-> <<>>, invoked |-> <<>>,
     entered |-> <<>>, returned |-> <<>>]

\* a call that saves whatever the config says.
ShouldSave_Always(cfg) == TRUE

\* `if !config.without_saving`.
ShouldSave(cfg) == ~cfg.without_saving

\* auth_with_password, auth_with_oauth2 and auth_refresh of RecordService and
\* AdminService (the admin service has no auth_with_oauth2).
AuthCall(svc, collection, kind, cfg, cl, lg, s, env) ==
    IF env.fail = "url"
    THEN [storage |-> s, result |-> Err(UrlError), out |-> NotSent]
    ELSE LET req == AuthRequest(svc, collection, kind, cfg, env.fail = "build")
             out == SendRequest(cl, lg, s, req, env)
         IN  IF ~out.result.ok
             THEN [storage |-> s, result |-> out.result, out |-> out]
             ELSE IF ShouldSave(cfg)
             THEN SaveAuthResponse(svc, cfg.T, s, out.result.value, env.save_fail_at)
                      @@ [out |-> out]
             ELSE [storage |-> s,
                   result |-> AuthResponseAs(cfg.T, svc, out.result.value.body, RequestError),
                   out |-> out]

(***************************************************************************)
(* The operations that do not authenticate: get_list, get_one, mutate,     *)
(* delete, list_auth_methods and the password reset calls.                 *)
(***************************************************************************)
\* the base path of the service: /api/collections/{name}/records or
\* /api/admins.
BasePath(svc, collection) ==
    IF svc = "admin" THEN <<"api", "admins">>
    ELSE <<"api", "collections", collection, "records">>

ResetOps == {"request-password-reset", "confirm-password-reset"}
UnitOps == {"delete"} \cup ResetOps

\* Serialize of the password reset configs.
ResetConfigJson(op, cfg) ==
    IF op = "request-password-reset"
    THEN [email |-> "example@example.com"] @@ cfg.body
    ELSE [token |-> "test", password |-> "test", passwordConfirm |-> "test"] @@ cfg.body

JsonContentType(req) == AddHeader(req, "Content-Type", "application/json")

\* a list request with the page before the page size.
GetListRequest_PageFirst(base, cfg, build_err) ==
    WithQuery(JsonContentType(RequestBuilder("GET", base, build_err)),
              << <<"page", ToString(cfg.page)>>, <<"perPage", ToString(cfg.per_page)>> >>
                  \o cfg.query_params)

\* get_list: GET base_path with perPage, page and the caller's pairs.
GetListRequest(base, cfg, build_err) ==
    WithQuery(JsonContentType(RequestBuilder("GET", base, build_err)),
              << <<"perPage", ToString(cfg.per_page)>>, <<"page", ToString(cfg.page)>> >>
                  \o cfg.query_params)

\* a serializer that writes the id of the config into the body.
MutateConfigJson_WithId(cfg) ==
    IF IsSome(cfg.id) THEN [id |-> cfg.id.some] @@ cfg.body ELSE cfg.body

\* Serialize of CRUDMutateConfig: id and query_params are skipped and the
\* body is flattened, so the document has the fields of the body.
MutateConfigJson(cfg) == [k \in DOMAIN cfg.body |-> cfg.body[k]]

\* a mutate that creates whatever the id.
MutateRequest_AlwaysPost(base, cfg, build_err) ==
    WithQuery(WithJson(RequestBuilder("POST", base, build_err), MutateConfigJson(cfg)),
              cfg.query_params)

\* mutate: POST base_path, or PATCH base_path/id when the config has an id.
MutateRequest(base, cfg, build_err) ==
    WithQuery(WithJson(IF IsSome(cfg.id)
                       THEN RequestBuilder("PATCH", base \o <<cfg.id.some>>, build_err)
                       ELSE RequestBuilder("POST", base, build_err),
                       MutateConfigJson(cfg)),
              cfg.query_params)

\* delete: DELETE base_path/id.
DeleteRequest(base, cfg, build_err) ==
    WithQuery(JsonContentType(RequestBuilder("DELETE", base \o <<cfg.id.some>>, build_err)),
              cfg.query_params)

\* the request each operation builds.
PlainRequest(svc, collection, op, cfg, build_err) ==
    IF op = "get_list"
    THEN GetListRequest(BasePath(svc, collection), cfg, build_err)
    ELSE IF op = "get_one"
    THEN WithQuery(JsonContentType(RequestBuilder("GET",
                       BasePath(svc, collection) \o <<cfg.id.some>>, build_err)),
                   cfg.query_params)
    ELSE IF op = "mutate"
    THEN MutateRequest(BasePath(svc, collection), cfg, build_err)
    ELSE IF op = "delete"
    THEN DeleteRequest(BasePath(svc, collection), cfg, build_err)
    ELSE IF op = "list_auth_methods"
    THEN WithQuery(JsonContentType(RequestBuilder("GET",
                       <<"api", "collections", collection, "auth-methods">>, build_err)),
                   cfg.query_params)
    ELSE LET r0 == JsonContentType(RequestBuilder("POST", AuthUrl(svc, collection, op),
                                                  build_err))
             r1 == IF svc = "admin" THEN WithQuery(r0, cfg.query_params) ELSE r0
         IN  WithJson(r1, ResetConfigJson(op, cfg))

\* a decoder that parses the body of every response as JSON.
PlainDecode_AlwaysParsing(svc, op, b) ==
    IF op \in UnitOps
    THEN IF IsJsonObject(b) THEN Ok("unit") ELSE Err(RequestError)
    ELSE IF op = "get_list"
    THEN IF HasKeys(b, {"page", "perPage", "totalItems", "items"})
         THEN Ok(b) ELSE Err(RequestError)
    ELSE IF op = "list_auth_methods"
    THEN IF HasKeys(b, {"usernamePassword", "emailPassword", "authProviders"})
         THEN Ok(b) ELSE Err(RequestError)
    ELSE LET m == IF svc = "admin" THEN AdminFromJson(b) ELSE RecordFromJson(b)
         IN  IF m.ok THEN m ELSE Err(RequestError)

\* response.json::<T>() with T the model type of the operation; delete and
\* the password reset calls do not read the body.
PlainDecode(svc, op, b) ==
    IF op \in UnitOps THEN Ok("unit")
    ELSE IF op = "get_list"
    THEN IF HasKeys(b, {"page", "perPage", "totalItems", "items"})
         THEN Ok(b) ELSE Err(RequestError)
    ELSE IF op = "list_auth_methods"
    THEN IF HasKeys(b, {"usernamePassword", "emailPassword", "authProviders"})
         THEN Ok(b) ELSE Err(RequestError)
    ELSE LET m == IF svc = "admin" THEN AdminFromJson(b) ELSE RecordFromJson(b)
         IN  IF m.ok THEN m ELSE Err(RequestError)

\* an operation that logs the caller out once the server accepted it.
PlainCall_Clearing(svc, collection, op, cfg, cl, lg, s, env) ==
    IF env.fail = "url"
    THEN [storage |-> s, result |-> Err(UrlError), out |-> NotSent]
    ELSE LET out == SendRequest(cl, lg, s,
                        PlainRequest(svc, collection, op, cfg, env.fail = "build"), env)
         IN  IF ~out.result.ok
             THEN [storage |-> s, result |-> out.result, out |-> out]
             ELSE [storage |-> AuthStateClear(s, 0).storage,
                   result |-> PlainDecode(svc, op, out.result.value.body), out |-> out]

\* an operation that does not authenticate: it sends and decodes, and does
\* not write the auth state.
PlainCall(svc, collection, op, cfg, cl, lg, s, env) ==
    IF env.fail = "url"
    THEN [storage |-> s, result |-> Err(UrlError), out |-> NotSent]
    ELSE LET out == SendRequest(cl, lg, s,
                        PlainRequest(svc, collection, op, cfg, env.fail = "build"), env)
         IN  IF ~out.result.ok
             THEN [storage |-> s, result |-> out.result, out |-> out]
             ELSE [storage |-> s,
                   result |-> PlainDecode(svc, op, out.result.value.body), out |-> out]

(***************************************************************************)
(* SpecSend: the builder, then raw sends through the built client.         *)
(***************************************************************************)
InitSend ==
    /\ open = TRUE
    /\ layer = Identity
    /\ client = <<>>
    /\ built = FALSE
    /\ lang = DefaultLang
    /\ registered = <<>>
    /\ storage = <<>>
    /\ call = None
    /\ last = NoOperation
    /\ pc = <<>>
    /\ job = <<>>

\* PocketBaseBuilder::lang.
BuilderSetLang(l) ==
    /\ ~built
    /\ lang' = l
    /\ UNCHANGED <<open, layer, client, built, registered, storage, call, last, pc, job>>

\* PocketBaseBuilder::layer.
BuilderAddLayer(t) ==
    /\ ~built
    /\ Len(registered) < MaxLayers
    /\ layer' = BuilderLayer(layer, t)
    /\ registered' = Append(registered, t)
    /\ UNCHANGED <<open, client, built, lang, storage, call, last, pc, job>>

\* PocketBaseBuilder::build.
Build ==
    /\ ~built
    /\ client' = BuilderBuild(layer)
    /\ built' = TRUE
    /\ UNCHANGED <<open, layer, lang, registered, storage, call, last, pc, job>>

\* Storage::set on the token key, as the application may call it.
SetToken(t) ==
    /\ storage' = StorageSet(storage, TOKEN_KEY, t)
    /\ UNCHANGED <<open, layer, client, built, lang, registered, call, last, pc, job>>

\* Storage::delete on the token key.
DeleteToken ==
    /\ TOKEN_KEY \in DOMAIN storage
    /\ storage' = StorageDelete(storage, TOKEN_KEY)
    /\ UNCHANGED <<open, layer, client, built, lang, registered, call, last, pc, job>>

\* PocketBaseClient::send of a request the caller built.
Send(req, env) ==
    /\ built
    /\ last' = [op |-> "send", env |-> env,
                out |-> SendRequest(client, lang, storage, req, env),
                request |-> req, before |-> storage]
    /\ UNCHANGED <<open, layer, client, built, lang, registered, storage, call, pc, job>>

NextSend ==
    \/ \E l \in Langs : BuilderSetLang(l)
    \/ \E t \in LayerIds : BuilderAddLayer(t)
    \/ Build
    \/ \E t \in SendTokens : SetToken(t)
    \/ DeleteToken
    \/ \E e \in BOOLEAN, env \in SendEnvs :
          Send(RequestBuilder("GET", BaseUrl, e), env)

SpecSend == InitSend /\ [][NextSend]_vars

(***************************************************************************)
(* Spec: the operations of the record and admin services and of the auth   *)
(* state, one call at a time, on a client built with the defaults.         *)
(***************************************************************************)
Init ==
    /\ open = TRUE
    /\ layer = Identity
    /\ client = BuilderBuild(Identity)
    /\ built = TRUE
    /\ lang = DefaultLang
    /\ registered = <<>>
    /\ storage = <<>>
    /\ call = None
    /\ last = NoOperation
    /\ pc = <<>>
    /\ job = <<>>

\* the caller starts an authentication call of the record or admin service.
StartAuth(svc, kind, cfg) ==
    /\ built
    /\ call = None
    /\ call' = Some([kind |-> kind, op |-> "auth", svc |-> svc, cfg |-> cfg])
    /\ last' = NoOperation
    /\ UNCHANGED <<open, layer, client, built, lang, registered, storage, pc, job>>

\* the authentication call runs, from the URL to the value it returns.
Auth(env) ==
    /\ call # None
    /\ call.some.op = "auth"
    /\ env \in AuthEnvs(call.some.svc)
    /\ LET c == call.some
           r == AuthCall(c.svc, Collection, c.kind, c.cfg, client, lang, storage, env)
       IN  /\ storage' = r.storage
           /\ last' = [kind |-> c.kind, op |-> "auth", result |-> r.result, env |-> env,
                       out |-> r.out, svc |-> c.svc, cfg |-> c.cfg,
                       before |-> storage]
    /\ call' = None
    /\ UNCHANGED <<open, layer, client, built, lang, registered, pc, job>>

\* the caller starts an operation that does not authenticate.
StartPlain(svc, op, cfg) ==
    /\ built
    /\ call = None
    /\ call' = Some([op |-> op, svc |-> svc, cfg |-> cfg])
    /\ last' = NoOperation
    /\ UNCHANGED <<open, layer, client, built, lang, registered, storage, pc, job>>

\* the operation runs, from the URL to the value it returns.
Plain(env) ==
    /\ call # None
    /\ call.some.op # "auth"
    /\ env \in PlainEnvs(call.some.svc, call.some.op)
    /\ LET c == call.some
           r == PlainCall(c.svc, Collection, c.op, c.cfg, client, lang, storage, env)
       IN  /\ storage' = r.storage
           /\ last' = [op |-> c.op, result |-> r.result, env |-> env, out |-> r.out,
                       svc |-> c.svc, cfg |-> c.cfg, before |-> storage]
    /\ call' = None
    /\ UNCHANGED <<open, layer, client, built, lang, registered, pc, job>>

\* AuthState::clear.
Clear(fail_at) ==
    /\ call = None
    /\ LET r == AuthStateClear(storage, fail_at)
       IN  /\ storage' = r.storage
           /\ last' = [op |-> "clear", fail_at |-> fail_at, result |-> r.result,
                       before |-> storage]
    /\ UNCHANGED <<open, layer, client, built, lang, registered, call, pc, job>>

\* AuthState::save, as the application may call it.
Save(login, fail_at) ==
    /\ call = None
    /\ LET r == AuthStateSave(storage, login.token, login.payload, fail_at)
       IN  /\ storage' = r.storage
           /\ last' = [token |-> login.token, payload |-> login.payload, op |-> "save",
                       fail_at |-> fail_at, result |-> r.result, before |-> storage]
    /\ UNCHANGED <<open, layer, client, built, lang, registered, call, pc, job>>

AllEnvs ==
    UNION {AuthEnvs(svc) : svc \in {"record", "admin"}}
        \cup UNION {PlainEnvs(so[1], so[2]) : so \in PlainServices}

Next ==
    \/ \E sk \in AuthServices, cfg \in AuthConfigs : StartAuth(sk[1], sk[2], cfg)
    \/ \E env \in AllEnvs : Auth(env)
    \/ \E so \in PlainServices : \E cfg \in PlainConfigs(so[2]) : StartPlain(so[1], so[2], cfg)
    \/ \E env \in AllEnvs : Plain(env)
    \/ \E n \in 0..2 : Clear(n)
    \/ \E login \in SaveInputs, n \in 0..2 : Save(login, n)

Spec == Init /\ [][Next]_vars

(***************************************************************************)
(* SpecAuthState: tasks that call save, clear and the two getters of the   *)
(* auth state at the same time.  Each storage call takes the lock of the   *)
(* map for itself; between two storage calls of one task the other tasks   *)
(* run.                                                                    *)
(***************************************************************************)
Tasks == 1..MaxTasks
Idle == [kind |-> "idle"]
IsWriter(j) == j.kind \in {"save", "clear"}
Returned(j) == j.kind # "idle" /\ j.result # None
OthersWriting(t) == \E u \in Tasks \ {t} : IsWriter(job[u])

\* task t starts the call j; a save or clear that runs while another one
\* runs is marked, and so is the other one.
StartJob(t, j) ==
    [u \in Tasks |->
        IF u = t THEN j
        ELSE IF IsWriter(j) /\ IsWriter(job[u]) THEN [job[u] EXCEPT !.overlapped = TRUE]
        ELSE job[u]]

InitAuthState ==
    /\ open = TRUE
    /\ layer = Identity
    /\ client = <<>>
    /\ built = FALSE
    /\ lang = DefaultLang
    /\ registered = <<>>
    /\ storage = <<>>
    /\ call = None
    /\ last = NoOperation
    /\ pc = [t \in Tasks |-> 0]
    /\ job = [t \in Tasks |-> Idle]

\* a task calls save(token, payload).
BeginSave(t, login) ==
    /\ job[t] = Idle
    /\ job' = StartJob(t, [kind |-> "save", token |-> login.token,
                           ops |-> SaveOps(login.token, login.payload), result |-> None,
                           overlapped |-> OthersWriting(t)])
    /\ UNCHANGED <<open, layer, client, built, lang, registered, storage, call, last, pc>>

\* a task calls clear().
BeginClear(t) ==
    /\ job[t] = Idle
    /\ job' = StartJob(t, [kind |-> "clear", token |-> "", ops |-> ClearOps,
                           result |-> None, overlapped |-> OthersWriting(t)])
    /\ UNCHANGED <<open, layer, client, built, lang, registered, storage, call, last, pc>>

\* a task reads the auth state: token(), then user_or_admin().
BeginRead(t) ==
    /\ job[t] = Idle
    /\ job' = StartJob(t, [kind |-> "read", token |-> None, result |-> None,
                           identity |-> None])
    /\ UNCHANGED <<open, layer, client, built, lang, registered, storage, call, last, pc>>

\* the next storage call of a running save or clear; `?` ends the call at
\* the first failure.
StorageStep(t, fails) ==
    /\ IsWriter(job[t])
    /\ job[t].result = None
    /\ IF fails
       THEN /\ job' = [job EXCEPT ![t].result = Some(Err(MutexError))]
            /\ UNCHANGED <<storage, pc>>
       ELSE /\ storage' = ApplyOp(storage, job[t].ops[pc[t] + 1])
            /\ pc' = [pc EXCEPT ![t] = @ + 1]
            /\ job' = IF pc[t] + 1 = Len(job[t].ops)
                      THEN [job EXCEPT ![t].result = Some(Ok("unit"))]
                      ELSE job
    /\ UNCHANGED <<open, layer, client, built, lang, registered, call, last>>

\* the next getter of a reading task.
ReadStep(t) ==
    /\ job[t].kind = "read"
    /\ job[t].result = None
    /\ IF pc[t] = 0
       THEN job' = [job EXCEPT ![t].token = AuthStateToken(storage, FALSE).value]
       ELSE job' = [job EXCEPT ![t].identity = StorageGet(storage, USER_OR_ADMIN_KEY),
                               ![t].result = Some(Ok("unit"))]
    /\ pc' = [pc EXCEPT ![t] = @ + 1]
    /\ UNCHANGED <<open, layer, client, built, lang, registered, storage, call, last>>

\* the call returns to its caller.
Return(t) ==
    /\ Returned(job[t])
    /\ job' = [job EXCEPT ![t] = Idle]
    /\ pc' = [pc EXCEPT ![t] = 0]
    /\ UNCHANGED <<open, layer, client, built, lang, registered, storage, call, last>>

NextAuthState ==
    \/ \E t \in Tasks, login \in Logins : BeginSave(t, login)
    \/ \E t \in Tasks : BeginClear(t)
    \/ \E t \in Tasks : BeginRead(t)
    \/ \E t \in Tasks, fails \in BOOLEAN : StorageStep(t, fails)
    \/ \E t \in Tasks : ReadStep(t)
    \/ \E t \in Tasks : Return(t)

SpecAuthState == InitAuthState /\ [][NextAuthState]_vars

(***************************************************************************)
(* MemoryStorage: a map under a read-write lock whose entries are strings  *)
(* under read-write locks of their own.  Tasks call get, set and delete;   *)
(* a call takes its locks one at a time and the other tasks run in         *)
(* between.  Here storage maps a key to the two halves of its string (a    *)
(* string is copied piece by piece, the lock makes the copy whole), pc is  *)
(* the place of each task in its call, job its call, last the map as the   *)
(* calls that took their lock for writing leave it, in the order of their  *)
(* locks, and call the sets and deletes made so far, in the order of the   *)
(* calls.                                                                  *)
(***************************************************************************)
Keys == {"a", "b"}
Values == {"v1", "v2"}

\* a string as the map holds it, and the string of two halves.
Whole(v) == <<v, v>>
IsWhole(e) == e[1] = e[2]

GetCall(k) == [value |-> None, kind |-> "get", key |-> k]
SetCall(k, v) == [value |-> Some(v), kind |-> "set", key |-> k]
DeleteCall(k) == [value |-> None, kind |-> "delete", key |-> k]
StorageCalls ==
    {GetCall(k) : k \in Keys} \cup {DeleteCall(k) : k \in Keys}
        \cup {SetCall(k, v) : k \in Keys, v \in Values}

\* the guards a task holds, by its place: the read guard of the map while
\* it works on an entry, the write guard of the map while it inserts or
\* removes, the write guard of an entry while it assigns the string.
\* the read guard kept while the task waits for the write guard.
HoldsMapRead_KeptForUpgrade(t) == pc[t] \in {"entry", "write", "upgrade"}

HoldsMapRead(t) == pc[t] \in {"entry", "write"}
HoldsMapWrite(t) == pc[t] \in {"insert", "remove"}
HoldsEntryWrite(t, k) == pc[t] = "write" /\ job[t].key = k

\* RwLock::read and RwLock::write of the map.
CanReadMap(t) == \A u \in Tasks \ {t} : ~HoldsMapWrite(u)
CanWriteMap(t) == \A u \in Tasks \ {t} : ~HoldsMapWrite(u) /\ ~HoldsMapRead(u)

\* an entry that is read whatever its writers do.
CanReadEntry_Unlocked(t, k) == TRUE

\* one lock for the strings of all keys.
CanWriteEntry_Global(t, k) ==
    \A u \in Tasks \ {t} : \A j \in Keys : ~HoldsEntryWrite(u, j)

\* RwLock::read and RwLock::write of the entry of a key.
CanReadEntry(t, k) == \A u \in Tasks \ {t} : ~HoldsEntryWrite(u, k)
CanWriteEntry(t, k) == \A u \in Tasks \ {t} : ~HoldsEntryWrite(u, k)

\* an insert that drops the other keys of the map.
MapInsert_Forgetting(s, k, v) == [j \in {k} |-> Whole(v)]

\* HashMap::insert and HashMap::remove.
MapInsert(s, k, v) == [j \in DOMAIN s \cup {k} |-> IF j = k THEN Whole(v) ELSE s[j]]
MapRemove(s, k) == [j \in DOMAIN s \ {k} |-> s[j]]

InitStorage ==
    /\ open = TRUE
    /\ layer = Identity
    /\ client = <<>>
    /\ built = FALSE
    /\ lang = DefaultLang
    /\ registered = <<>>
    /\ storage = <<>>
    /\ call = <<>>
    /\ last = <<>>
    /\ pc = [t \in Tasks |-> "idle"]
    /\ job = [t \in Tasks |-> Idle]

\* a task calls get, set or delete while other calls may be running.
BeginCall(t, c) ==
    /\ job[t] = Idle
    /\ job' = [job EXCEPT ![t] = c]
    /\ pc' = [pc EXCEPT ![t] = "start"]
    /\ UNCHANGED <<open, layer, client, built, lang, registered, storage, call, last>>

\* a task calls get, set or delete when no other call is running.
BeginAlone(t, c) ==
    /\ \A u \in Tasks : job[u] = Idle
    /\ c.kind # "get" => Len(call) < MaxCalls
    /\ job' = [job EXCEPT ![t] = c]
    /\ pc' = [pc EXCEPT ![t] = "start"]
    /\ call' = IF c.kind = "get" THEN call ELSE Append(call, c)
    /\ UNCHANGED <<open, layer, client, built, lang, registered, storage, last>>

\* self.data.read() and data.get(key): get of a missing key returns None,
\* delete of a missing key returns; set of a missing key and delete of a
\* key that is there drop the guard to take the write guard; get and set
\* of a key that is there keep the guard and go on to the entry.
LockMap(t) ==
    /\ pc[t] = "start"
    /\ CanReadMap(t)
    /\ LET c == job[t]
           there == c.key \in DOMAIN storage
       IN  /\ pc' = [pc EXCEPT ![t] =
                       IF c.kind = "get" THEN IF there THEN "entry" ELSE "got"
                       ELSE IF c.kind = "set" THEN IF there THEN "entry" ELSE "upgrade"
                       ELSE IF there THEN "upgrade" ELSE "idle"]
           /\ job' = IF c.kind = "delete" /\ ~there
                     THEN [job EXCEPT ![t] = Idle]
                     ELSE job
           /\ last' = IF c.kind = "delete" /\ ~there THEN MapRemove(last, c.key) ELSE last
    /\ UNCHANGED <<open, layer, client, built, lang, registered, storage, call>>

\* value.read() and to_string() in get; entry.write() and the first part of
\* the assignment in set.
LockEntry(t) ==
    /\ pc[t] = "entry"
    /\ LET c == job[t]
       IN  IF c.kind = "get"
           THEN /\ CanReadEntry(t, c.key)
                /\ job' = [job EXCEPT ![t].value = Some(storage[c.key])]
                /\ pc' = [pc EXCEPT ![t] = "got"]
                /\ UNCHANGED <<storage, last>>
           ELSE /\ CanWriteEntry(t, c.key)
                /\ storage' = [storage EXCEPT ![c.key] = <<c.value.some, @[2]>>]
                /\ last' = [last EXCEPT ![c.key] = Whole(c.value.some)]
                /\ pc' = [pc EXCEPT ![t] = "write"]
                /\ UNCHANGED job
    /\ UNCHANGED <<open, layer, client, built, lang, registered, call>>

\* the rest of the assignment; set returns and its guards are dropped.
WriteRest(t) ==
    /\ pc[t] = "write"
    /\ storage' = [storage EXCEPT ![job[t].key] = Whole(job[t].value.some)]
    /\ job' = [job EXCEPT ![t] = Idle]
    /\ pc' = [pc EXCEPT ![t] = "idle"]
    /\ UNCHANGED <<open, layer, client, built, lang, registered, call, last>>

\* self.data.write() of a set that inserts or of a delete that removes.
LockMapWrite(t) ==
    /\ pc[t] = "upgrade"
    /\ CanWriteMap(t)
    /\ pc' = [pc EXCEPT ![t] = IF job[t].kind = "set" THEN "insert" ELSE "remove"]
    /\ last' = IF job[t].kind = "set"
               THEN MapInsert(last, job[t].key, job[t].value.some)
               ELSE MapRemove(last, job[t].key)
    /\ UNCHANGED <<open, layer, client, built, lang, registered, storage, call, job>>

\* data.insert(..) or data.remove(key); the call returns and the guard is
\* dropped.
MapWrite(t) ==
    /\ HoldsMapWrite(t)
    /\ storage' = IF pc[t] = "insert"
                  THEN MapInsert(storage, job[t].key, job[t].value.some)
                  ELSE MapRemove(storage, job[t].key)
    /\ job' = [job EXCEPT ![t] = Idle]
    /\ pc' = [pc EXCEPT ![t] = "idle"]
    /\ UNCHANGED <<open, layer, client, built, lang, registered, call, last>>

\* the caller of get takes its result.
ReturnGet(t) ==
    /\ pc[t] = "got"
    /\ job' = [job EXCEPT ![t] = Idle]
    /\ pc' = [pc EXCEPT ![t] = "idle"]
    /\ UNCHANGED <<open, layer, client, built, lang, registered, storage, call, last>>

\* the steps of the call of task t, from its first lock to its return.
CallStep(t) ==
    \/ LockMap(t)
    \/ LockEntry(t)
    \/ WriteRest(t)
    \/ LockMapWrite(t)
    \/ MapWrite(t)
    \/ ReturnGet(t)

\* SpecMemory: one call at a time.
NextMemory ==
    \/ \E t \in Tasks, c \in StorageCalls : BeginAlone(t, c)
    \/ \E t \in Tasks : LockMap(t)
    \/ \E t \in Tasks : LockEntry(t)
    \/ \E t \in Tasks : WriteRest(t)
    \/ \E t \in Tasks : LockMapWrite(t)
    \/ \E t \in Tasks : MapWrite(t)
    \/ \E t \in Tasks : ReturnGet(t)

SpecMemory == InitStorage /\ [][NextMemory]_vars

\* SpecStorage: calls of all tasks at the same time.
NextStorage ==
    \/ \E t \in Tasks, c \in StorageCalls : BeginCall(t, c)
    \/ \E t \in Tasks : LockMap(t)
    \/ \E t \in Tasks : LockEntry(t)
    \/ \E t \in Tasks : WriteRest(t)
    \/ \E t \in Tasks : LockMapWrite(t)
    \/ \E t \in Tasks : MapWrite(t)
    \/ \E t \in Tasks : ReturnGet(t)

SpecStorage == InitStorage /\ [][NextStorage]_vars

\* the callers stop starting calls.
StopCalling ==
    /\ open
    /\ open' = FALSE
    /\ UNCHANGED <<layer, client, built, lang, registered, storage, call, last, pc, job>>

\* a task calls get, set or delete while callers still start calls; the
\* strings do not matter to the locks, one value is enough.
BeginWhileOpen(t, c) ==
    /\ open
    /\ c.value \in {None, Some("v1")}
    /\ BeginCall(t, c)

NextStorageFair ==
    \/ \E t \in Tasks, c \in StorageCalls : BeginWhileOpen(t, c)
    \/ StopCalling
    \/ \E t \in Tasks : LockMap(t)
    \/ \E t \in Tasks : LockEntry(t)
    \/ \E t \in Tasks : WriteRest(t)
    \/ \E t \in Tasks : LockMapWrite(t)
    \/ \E t \in Tasks : MapWrite(t)
    \/ \E t \in Tasks : ReturnGet(t)

\* SpecStorageFair: the callers may stop starting calls, and a fair
\* scheduler runs every task that can take a step.
SpecStorageFair ==
    InitStorage /\ [][NextStorageFair]_vars /\ \A t \in Tasks : WF_vars(CallStep(t))

(***************************************************************************)
(* Claims about send and the builder, checked under SpecSend.              *)
(***************************************************************************)
\* the last operation was a send whose request reached the server and whose
\* response came back to the send wrapper.
SendReceived ==
    /\ last.op = "send"
    /\ last.env.fail = "none"
    /\ ~last.request.build_err
    /\ last.out.executed # <<>>

SendResult == last.out.result

ApiErrorFields(b) == [data |-> b.data, code |-> b.code, message |-> b.message]

C2_SuccessPassesThrough ==
    (SendReceived /\ last.env.status >= 200 /\ last.env.status < 300)
        => /\ SendResult.ok
           /\ SendResult.value.status = last.env.status
           /\ SendResult.value.body = last.env.body

C2_Witness ==
    /\ SendReceived
    /\ last.env.status = 299
    /\ last.env.body \in ApiErrorBodies
    /\ SendResult.ok

\* the layers in the order in which they saw the request the transport
\* executed, and in the order in which they saw the response.
SawRequest == [i \in 1..Len(HeaderValues(last.out.executed[1], "X-Test")) |->
                  HeaderValues(last.out.executed[1], "X-Test")[i][2]]
SawResponse == SendResult.value.via
Reverse(q) == [i \in 1..Len(q) |-> q[Len(q) + 1 - i]]

SendAnswered ==
    /\ SendReceived
    /\ SendResult.ok

\* C9 (as stated): the last-registered layer is outermost: the layers see
\* the request in the reverse of the registration order and the response in
\* registration order, the transport innermost.
C9_LastRegisteredOutermost ==
    SendAnswered => /\ SawRequest = Reverse(registered)
                    /\ SawResponse = registered

\* C9 (amended): the first-registered layer is outermost: the layers see the
\* request in registration order and the response in the reverse order, and
\* the transport, innermost, executes the request after every layer saw it.
C9_FirstRegisteredOutermost ==
    /\ built => client = registered
    /\ SendAnswered => /\ SawRequest = registered
                       /\ SawResponse = Reverse(registered)
                       /\ Len(last.out.executed) = 1

C9_Witness ==
    /\ SendAnswered
    /\ registered = <<"A", "B">>
    /\ SawRequest = <<"A", "B">>
    /\ SawResponse = <<"B", "A">>

\* C10: every call into the service chain is preceded by a poll_ready of the
\* chain made for that call.
C10_ReadyBeforeEveryCall ==
    last.op = "send" =>
        \A i \in 1..Len(last.out.invoked) :
            last.out.invoked[i] = "call"
                => (i > 1 /\ last.out.invoked[i - 1] = "poll_ready")

(***************************************************************************)
(* Claims about the services and the auth state, checked under Spec.       *)
(***************************************************************************)
AuthReturned == last.op = "auth"
HasToken(s) == TOKEN_KEY \in DOMAIN s
HasIdentity(s) == USER_OR_ADMIN_KEY \in DOMAIN s

\* the identity of an auth response body, by the key the service reads.
ResponseIdentity == IF last.svc = "admin" THEN last.env.body.admin ELSE last.env.body.record
ReturnedIdentity == IF last.svc = "admin" THEN last.result.value.admin
                    ELSE last.result.value.record

\* C3: after an authentication call that succeeds with without_saving =
\* false, the stored token is the token of the response, the stored identity
\* is the identity of the response (the Admin variant for the admin service,
\* the User variant for the record service), and the caller gets the same
\* token and identity.
C3_SavedAuthMatchesResponse ==
    (AuthReturned /\ last.result.ok /\ ~last.cfg.without_saving)
        => /\ StorageGet(storage, TOKEN_KEY) = Some(last.env.body.token)
           /\ AuthStateUserOrAdmin(storage, FALSE).ok
           /\ LET stored == AuthStateUserOrAdmin(storage, FALSE).value.some
              IN  /\ stored.variant = (IF last.svc = "admin" THEN "Admin" ELSE "User")
                  /\ stored.inner = ReturnedIdentity
                  /\ stored.inner.base.id = ResponseIdentity.id
                  /\ stored.inner.base.created = ResponseIdentity.created
                  /\ last.svc = "admin" => stored.inner.email = ResponseIdentity.email
                  /\ last.svc = "record"
                        => /\ stored.inner.collection_id = ResponseIdentity.collectionId
                           /\ stored.inner.data = Without(ResponseIdentity, RecordKeys)
           /\ last.result.value.token = last.env.body.token

C3_Witness ==
    /\ AuthReturned
    /\ last.result.ok
    /\ ~last.cfg.without_saving
    /\ last.svc = "record"
    /\ last.kind = "auth-with-oauth2"
    /\ StorageGet(last.before, TOKEN_KEY) = Some("t1")
    /\ StorageGet(storage, TOKEN_KEY) = Some("t2")
    /\ "email" \in DOMAIN last.env.body.record

\* C4: an authentication call that returns an error leaves the token and the
\* identity in the store as they were before the call.
C4_FailedAuthLeavesStore ==
    (AuthReturned /\ ~last.result.ok) => storage = last.before

\* C6: save writes the token first and the identity second: when the second
\* storage call fails, save returns the error, the identity key keeps its
\* value and the token key holds the new token; when the first one fails
\* nothing is written; when none fails both are written.
C6_TokenWriteNotRolledBack ==
    last.op = "save" =>
        /\ last.fail_at = 2
              => /\ last.result = Err(MutexError)
                 /\ StorageGet(storage, TOKEN_KEY) = Some(last.token)
                 /\ StorageGet(storage, USER_OR_ADMIN_KEY)
                        = StorageGet(last.before, USER_OR_ADMIN_KEY)
        /\ last.fail_at = 1
              => /\ last.result = Err(MutexError)
                 /\ storage = last.before
        /\ last.fail_at = 0
              => /\ last.result.ok
                 /\ StorageGet(storage, TOKEN_KEY) = Some(last.token)
                 /\ StorageGet(storage, USER_OR_ADMIN_KEY)
                        = Some(AuthPayloadToJson(last.payload))

C6_Witness ==
    /\ last.op = "save"
    /\ last.fail_at = 2
    /\ last.token = "t2"
    /\ StorageGet(last.before, TOKEN_KEY) = Some("t1")
    /\ HasIdentity(last.before)
    /\ StorageGet(storage, TOKEN_KEY) = Some("t2")
    /\ AuthStateUserOrAdmin(storage, FALSE).value.some.variant = "Admin"

\* C7: an authentication call with without_saving = true leaves the store as
\* it was, whether it succeeds or fails, and when the response is a success
\* that decodes, the caller gets the decoded payload.
C7_WithoutSavingKeepsStore ==
    (AuthReturned /\ last.cfg.without_saving)
        => /\ storage = last.before
           /\ (/\ last.env.fail = "none"
               /\ last.env.status = 200
               /\ last.env.body \in AuthBodies(last.svc)
               /\ last.cfg.T = "std")
                 => /\ last.result.ok
                    /\ last.result.value.token = last.env.body.token
                    /\ ReturnedIdentity.base.id = ResponseIdentity.id

C7_Witness ==
    /\ AuthReturned
    /\ last.cfg.without_saving
    /\ last.result.ok
    /\ last.result.value.token = "t2"
    /\ StorageGet(storage, TOKEN_KEY) = Some("t1")
    /\ AuthStateUserOrAdmin(storage, FALSE).value.some.variant = "Admin"

PlainOps == {"get_list", "get_one", "mutate", "delete", "list_auth_methods",
             "request-password-reset", "confirm-password-reset"}

\* C8: get_list, get_one, mutate, delete, list_auth_methods and the password
\* reset calls, successful or failed, leave the stored token and identity
\* unchanged.
C8_PlainCallsKeepStore ==
    last.op \in PlainOps => storage = last.before

C8_Witness ==
    /\ last.op = "confirm-password-reset"
    /\ last.result.ok
    /\ HasToken(storage)
    /\ HasIdentity(storage)

(***************************************************************************)
(* Claims about concurrent callers, checked under SpecAuthState.           *)
(***************************************************************************)
\* C5 (as stated): in every state a concurrent reader can observe, the store
\* holds both a token and an identity or neither.
C5_BothOrNeither == HasToken(storage) <=> HasIdentity(storage)

\* C5 (amended): each key is written in one step, and the pair is whole only
\* at the end of a call: a save or clear that returned Ok and did not run
\* together with another save or clear leaves both keys (with the token of
\* the save) or neither; between its two writes such a save shows its token
\* without its identity.
C5_PairWholeAfterSoloCall ==
    \A t \in Tasks :
        (IsWriter(job[t]) /\ ~job[t].overlapped)
            => /\ (job[t].kind = "save" /\ job[t].result = Some(Ok("unit")))
                     => /\ StorageGet(storage, TOKEN_KEY) = Some(job[t].token)
                        /\ HasIdentity(storage)
               /\ (job[t].kind = "clear" /\ job[t].result = Some(Ok("unit")))
                     => /\ ~HasToken(storage)
                        /\ ~HasIdentity(storage)
               /\ (job[t].kind = "save" /\ pc[t] = 1)
                     => StorageGet(storage, TOKEN_KEY) = Some(job[t].token)

\* a save that ran alone has returned Ok, and a reader that ran beside it
\* has seen its token without an identity.
C5_Witness ==
    \E t, u \in Tasks :
        /\ job[t].kind = "save"
        /\ ~job[t].overlapped
        /\ job[t].result = Some(Ok("unit"))
        /\ job[u].kind = "read"
        /\ Returned(job[u])
        /\ job[u].token = Some(job[t].token)
        /\ job[u].identity = None

(***************************************************************************)
(* Claims about the headers send attaches, checked under SpecSend.         *)
(***************************************************************************)
\* the last operation was a send and the transport executed its request.
SendExecuted == last.op = "send" /\ Len(last.out.executed) = 1

AuthorizationOf(req) == HeaderValues(req, "Authorization")

\* C12: the request a send dispatches carries one Authorization header with
\* the stored token when the store held a token at the time of the send, and
\* none when it held none; a send with no token stored is dispatched like
\* any other and its 2xx response is returned; a stored token is never
\* replaced or dropped: a token no header can carry stops the send before
\* the dispatch.
C12_AuthorizationIffToken ==
    last.op = "send" =>
        /\ SendExecuted =>
              AuthorizationOf(last.out.executed[1]) =
                  IF HasToken(last.before)
                  THEN << <<"Authorization", last.before[TOKEN_KEY]>> >>
                  ELSE <<>>
        /\ (~HasToken(last.before) /\ ~last.request.build_err
                /\ last.env.fail = "none")
              => /\ SendExecuted
                 /\ IsSuccess(last.env.status) => last.out.result.ok
        /\ (HasToken(last.before) /\ ~last.request.build_err
                /\ last.env.fail \in {"none", "transport"})
              => IF IsHeaderValue(last.before[TOKEN_KEY])
                 THEN SendExecuted
                 ELSE last.out.executed = <<>> /\ last.out.result = Err(RequestError)

C12_Witness ==
    /\ SendExecuted
    /\ HasToken(last.before)
    /\ AuthorizationOf(last.out.executed[1]) = << <<"Authorization", "t2">> >>
    /\ last.out.result.ok

\* C13: every request that reaches the transport through send carries one
\* Accept-Language header, whose value is the client's locale.
C13_AcceptLanguageIsLang ==
    last.op = "send" =>
        \A i \in 1..Len(last.out.executed) :
            HeaderValues(last.out.executed[i], "Accept-Language")
                = << <<"Accept-Language", lang>> >>

C13_Witness ==
    /\ SendExecuted
    /\ lang = "fr"
    /\ HeaderValues(last.out.executed[1], "Accept-Language")
           = << <<"Accept-Language", "fr">> >>

(***************************************************************************)
(* Claims about the requests the services send, checked under Spec.        *)
(***************************************************************************)
ServiceOps == PlainOps \cup {"auth"}

\* the requests the HTTP client executed for the last operation.
Executed == last.out.executed

\* C11: one public operation executes the transport at most once: exactly
\* once when the URL, the token read and the request build succeed, also
\* when the attempt fails or the response is not 2xx, and not at all
\* otherwise.
C11_AtMostOneExecution ==
    last.op \in ServiceOps =>
        /\ Len(Executed) <= 1
        /\ last.env.fail \in {"none", "transport"} => Len(Executed) = 1
        /\ last.env.fail \in {"url", "token", "build"} => Len(Executed) = 0

C11_Witness ==
    /\ last.op = "auth"
    /\ last.env.fail = "transport"
    /\ last.result = Err(RequestError)
    /\ Len(Executed) = 1

\* the last operation was op and the transport executed its request.
Sent(op) == last.op = op /\ Len(Executed) = 1

\* the base path of the service the last operation was called on.
LastBase == BasePath(last.svc, Collection)

\* C14: mutate without an id issues POST to the base path and mutate with
\* an id issues PATCH to base_path/id, whatever the body and the extra
\* query parameters.
C14_MutateMethodAndPath ==
    Sent("mutate") =>
        IF IsSome(last.cfg.id)
        THEN /\ Executed[1].method = "PATCH"
             /\ Executed[1].url = LastBase \o <<last.cfg.id.some>>
        ELSE /\ Executed[1].method = "POST"
             /\ Executed[1].url = LastBase

C14_Witness ==
    /\ Sent("mutate")
    /\ last.cfg.id = Some("X")
    /\ "id" \in DOMAIN last.cfg.body
    /\ last.cfg.query_params # <<>>
    /\ Executed[1].method = "PATCH"
    /\ Executed[1].url = <<"api", "collections", Collection, "records", "X">>

\* C15 (as stated): the JSON body that mutate sends never has an id field,
\* for every body value.
C15_BodyNeverHasId ==
    Sent("mutate") => "id" \notin DOMAIN Executed[1].body.some

\* C15 (amended): the id and the query parameters of the mutate config are
\* never written into the JSON body: the body sent has exactly the fields
\* and values of the caller's body value (an id field only when that value
\* has one of its own), the config's id appears only in the path and its
\* query parameters only in the query.
C15_BodyIsCallersBody ==
    Sent("mutate") =>
        /\ IsSome(Executed[1].body)
        /\ DOMAIN Executed[1].body.some = DOMAIN last.cfg.body
        /\ \A k \in DOMAIN last.cfg.body :
              Executed[1].body.some[k] = last.cfg.body[k]
        /\ Executed[1].query = last.cfg.query_params
        /\ "id" \notin DOMAIN last.cfg.body => "id" \notin DOMAIN Executed[1].body.some

C15_Witness ==
    /\ Sent("mutate")
    /\ last.cfg.id = Some("X")
    /\ last.cfg.query_params # <<>>
    /\ "id" \notin DOMAIN last.cfg.body
    /\ "id" \notin DOMAIN Executed[1].body.some
    /\ Executed[1].query = last.cfg.query_params

\* C16: get_list issues GET to the base path with the query perPage, then
\* page, then the caller's pairs in their order, duplicate keys kept.
C16_GetListQuery ==
    Sent("get_list") =>
        /\ Executed[1].method = "GET"
        /\ Executed[1].url = LastBase
        /\ Len(Executed[1].query) = 2 + Len(last.cfg.query_params)
        /\ Executed[1].query[1] = <<"perPage", ToString(last.cfg.per_page)>>
        /\ Executed[1].query[2] = <<"page", ToString(last.cfg.page)>>
        /\ \A i \in 1..Len(last.cfg.query_params) :
              Executed[1].query[i + 2] = last.cfg.query_params[i]

C16_Witness ==
    /\ Sent("get_list")
    /\ Executed[1].query =
           << <<"perPage", "1">>, <<"page", "2">>,
              <<"expand", "a">>, <<"sort", "x">>, <<"expand", "b">> >>

\* C17: delete issues DELETE to base_path/id and returns success for every
\* 2xx response, whatever its body: an empty body or a body that is no JSON.
C17_DeleteIgnoresBody ==
    Sent("delete") =>
        /\ Executed[1].method = "DELETE"
        /\ Executed[1].url = LastBase \o <<last.cfg.id.some>>
        /\ (last.env.fail = "none" /\ IsSuccess(last.env.status))
              => last.result = Ok("unit")

C17_Witness ==
    /\ Sent("delete")
    /\ last.env.status = 204
    /\ last.env.body = EmptyBody
    /\ last.result = Ok("unit")

(***************************************************************************)
(* Claims about the auth state's save, getters and clear, checked under    *)
(* Spec.                                                                   *)
(***************************************************************************)
\* the last operation was a save that returned Ok.
Saved == last.op = "save" /\ last.result.ok

\* C18 (as stated): after save(token, payload) succeeds, the token getter
\* returns the token and the identity getter returns a value equal to the
\* payload, of the same variant, for every token and payload.
C18_SaveThenLoadRoundTrip ==
    Saved =>
        /\ AuthStateToken(storage, FALSE) = Ok(Some(last.token))
        /\ AuthStateUserOrAdmin(storage, FALSE) = Ok(Some(last.payload))

\* both getters find nothing in store s.
GettersNone(s) ==
    /\ AuthStateToken(s, FALSE) = Ok(None)
    /\ AuthStateUserOrAdmin(s, FALSE) = Ok(None)

\* the last operation was a clear that returned Ok.
Cleared == last.op = "clear" /\ last.result.ok

\* C19: clear is idempotent: a clear whose storage calls do not fail returns
\* Ok from every store state, the empty one included, and leaves no token
\* and no identity; a second clear then returns Ok as well and leaves the
\* store as the first one left it.
C19_ClearIdempotent ==
    last.op = "clear" =>
        /\ last.fail_at = 0 => last.result.ok
        /\ last.result.ok
              => /\ GettersNone(storage)
                 /\ AuthStateClear(storage, 0).result.ok
                 /\ AuthStateClear(storage, 0).storage = storage
                 /\ AuthStateClear(AuthStateClear(last.before, 0).storage, 0)
                        = AuthStateClear(last.before, 0)

\* a clear of a store that a clear had emptied before.
C19_Witness ==
    /\ Cleared
    /\ last.before = <<>>
    /\ storage = <<>>
    /\ GettersNone(storage)

\* C20: after a clear that succeeded, whatever was saved before it, both
\* getters return None, and they go on returning None until a save (of the
\* application or of an authentication call) writes the store again.
C20_NoneUntilNextSave ==
    /\ [](Cleared => GettersNone(storage))
    /\ [][(GettersNone(storage) /\ ~GettersNone(storage'))
             => last'.op \in {"save", "auth"}]_vars

C20_Witness ==
    /\ Cleared
    /\ HasToken(last.before)
    /\ HasIdentity(last.before)
    /\ GettersNone(storage)

(***************************************************************************)
(* Claims about MemoryStorage, checked under SpecMemory (one call at a     *)
(* time) and SpecStorage (calls at the same time).                         *)
(***************************************************************************)
RECURSIVE MostRecent(_, _)
\* what the sets and deletes h, in their order, leave under key k: the value
\* of the last set of k when no delete of k came after it.
MostRecent(h, k) ==
    IF h = <<>> THEN None
    ELSE IF h[Len(h)].key = k
    THEN IF h[Len(h)].kind = "set" THEN Some(Whole(h[Len(h)].value.some)) ELSE None
    ELSE MostRecent(SubSeq(h, 1, Len(h) - 1), k)

\* what a get of key k would return now.
Lookup(k) == IF k \in DOMAIN storage THEN Some(storage[k]) ELSE None

AllIdle == \A t \in Tasks : job[t] = Idle

\* C21: after a series of sets and deletes made one after the other, every
\* key holds the value of its most recent set when no delete of it came
\* later and nothing otherwise (a set of a key that is there overwrites, a
\* delete of a missing key changes nothing), and a get returns just that.
C21_StorageIsAMap ==
    /\ AllIdle => \A k \in Keys : Lookup(k) = MostRecent(call, k)
    /\ \A t \in Tasks :
          pc[t] = "got" => job[t].value = MostRecent(call, job[t].key)

\* a get that returns the second value set on a key that another key's
\* delete did not touch.
C21_Witness ==
    /\ \E t \in Tasks :
          /\ pc[t] = "got"
          /\ job[t] = [GetCall("a") EXCEPT !.value = Some(Whole("v2"))]
    /\ Len(call) = 3
    /\ call[1] = SetCall("a", "v1")
    /\ call[2] = SetCall("a", "v2")
    /\ call[3] = DeleteCall("b")

(***************************************************************************)
(* Claims about errors, checked under Spec and SpecSend.                   *)
(***************************************************************************)
\* C22: an operation returns the first error it meets and stops: a failed
\* URL join, token read or request build is returned as it is and nothing
\* is executed; a failed transport is returned as it is after the one
\* attempt, not classified and not decoded; the store is not written.
C22_FirstErrorReturned ==
    last.op \in ServiceOps =>
        /\ last.env.fail = "url"
              => last.result = Err(UrlError) /\ Executed = <<>>
        /\ last.env.fail = "token"
              => last.result = Err(MutexError) /\ Executed = <<>>
        /\ last.env.fail = "build"
              => last.result = Err(RequestError) /\ Executed = <<>>
        /\ last.env.fail = "transport"
              => last.result = Err(RequestError) /\ Len(Executed) = 1
        /\ last.env.fail # "none" => storage = last.before

C22_Witness ==
    /\ last.op = "get_list"
    /\ last.env.fail = "build"
    /\ HasToken(last.before)
    /\ last.result = Err(RequestError)
    /\ Executed = <<>>

\* task t is at a lock that it cannot take now.
Blocked(t) ==
    \/ pc[t] = "start" /\ ~CanReadMap(t)
    \/ pc[t] = "upgrade" /\ ~CanWriteMap(t)
    \/ pc[t] = "entry" /\ job[t].kind = "get" /\ ~CanReadEntry(t, job[t].key)
    \/ pc[t] = "entry" /\ job[t].kind = "set" /\ ~CanWriteEntry(t, job[t].key)

\* t waits for u: t is blocked and u is the only other task with a guard.
WaitsFor(t, u) ==
    /\ Blocked(t)
    /\ HoldsMapRead(u) \/ HoldsMapWrite(u)
    /\ \A w \in Tasks \ {t, u} : ~HoldsMapRead(w) /\ ~HoldsMapWrite(w)

\* t and u run sets on different keys.
SetsOnTwoKeys(t, u) ==
    /\ t # u
    /\ pc[t] # "idle" /\ job[t].kind = "set"
    /\ pc[u] # "idle" /\ job[u].kind = "set"
    /\ job[t].key # job[u].key

\* the set of task t found its key missing and inserts it.
Inserting(t) == job[t].kind = "set" /\ pc[t] \in {"upgrade", "insert"}

\* C23 (as stated): a set on one key never waits for a set on a different
\* key, whether or not the keys are in the map.
C23_SetsNeverContend ==
    \A t, u \in Tasks : SetsOnTwoKeys(t, u) => ~WaitsFor(t, u)

\* C23 (amended): sets on different keys that both are in the map never
\* wait for each other: each holds the map's read guard and the write guard
\* of its own entry.  A set of a key that is not in the map takes the map's
\* write guard: it waits for every running call that found its key, and
\* every call waits for it while it inserts.
C23_SetsOfPresentKeysNeverContend ==
    \A t, u \in Tasks :
        (SetsOnTwoKeys(t, u) /\ WaitsFor(t, u)) => Inserting(t) \/ Inserting(u)

\* a set takes the write guard of its entry while a set on another key
\* holds the write guard of its own.
C23_Witness ==
    \E t, u \in Tasks :
        /\ SetsOnTwoKeys(t, u)
        /\ pc[t] = "write"
        /\ pc[u] = "write"
        /\ ~IsWhole(storage[job[t].key])
        /\ ~IsWhole(storage[job[u].key])

(***************************************************************************)
(* Claims about saves at the same time, checked under SpecAuthState.       *)
(***************************************************************************)
\* the save of task t has returned Ok.
SaveDone(t) == job[t].kind = "save" /\ job[t].result = Some(Ok("unit"))

\* the store holds the token and the identity that the save of task t wrote.
PairOf(t) ==
    /\ StorageGet(storage, TOKEN_KEY) = Some(job[t].ops[1].value)
    /\ StorageGet(storage, USER_OR_ADMIN_KEY) = Some(job[t].ops[2].value)

\* C24 (as stated): when two saves of different logins ran at the same time
\* and both returned Ok (and no other task was writing), the token and the
\* identity in the store are those of one of the two saves.
C24_PairFromOneSave ==
    \A t, u \in Tasks :
        (/\ t # u
         /\ SaveDone(t) /\ SaveDone(u)
         /\ job[t].overlapped /\ job[u].overlapped
         /\ job[t].token # job[u].token
         /\ \A w \in Tasks \ {t, u} : ~IsWriter(job[w]))
            => PairOf(t) \/ PairOf(u)

(***************************************************************************)
(* Claims about calls of MemoryStorage at the same time, checked under     *)
(* SpecStorage.                                                            *)
(***************************************************************************)
\* C25: whatever the interleaving of gets, sets and deletes, a get returns
\* None or a whole value that some set was given, never a mix of two, and
\* once every call has returned each key holds what the set or delete that
\* took its lock last leaves there.
C25_WholeValuesLastLockWins ==
    /\ \A t \in Tasks :
          pc[t] = "got" =>
              \/ job[t].value = None
              \/ \E v \in Values : job[t].value = Some(Whole(v))
    /\ AllIdle => storage = last

\* a get returned the old value of a key whose string a set is assigning.
C25_Witness ==
    \E t, u \in Tasks :
        /\ pc[t] = "got"
        /\ job[t] = [GetCall("a") EXCEPT !.value = Some(Whole("v2"))]
        /\ pc[u] = "write"
        /\ job[u] = SetCall("a", "v1")
        /\ storage["a"] = <<"v1", "v2">>

\* C26: MemoryStorage does not deadlock: from every state that calls at the
\* same time can reach, once the callers start no new calls, a fair
\* scheduler brings every running call, whatever the other calls on the
\* same or on other keys, to its return.
C26_EveryCallReturns ==
    \A t \in Tasks : (~open /\ pc[t] # "idle") ~> (pc[t] = "idle")

\* two calls that both dropped the read guard of the map and both wait for
\* its write guard, while a third call, if any, is idle.
C26_Witness ==
    \E t, u \in Tasks :
        /\ t # u
        /\ ~open
        /\ pc[t] = "upgrade" /\ job[t].kind = "set"
        /\ pc[u] = "upgrade" /\ job[u].kind = "delete"

\* C27: a saving authentication call writes the store only after a 2xx
\* response has been received and its body decoded into a token and an
\* identity: when no response arrives, when the response is non-2xx, or when
\* the success body does not decode as an auth response, the store is as it
\* was before the call.
C27_WriteOnlyAfterDecodedSuccess ==
    (AuthReturned /\ ~last.cfg.without_saving /\ storage # last.before)
        => /\ last.env.fail = "none"
           /\ IsSuccess(last.env.status)
           /\ AuthResponseFromJson(last.svc, last.env.body).ok
           /\ last.out.executed # <<>>

C27_Witness ==
    /\ AuthReturned
    /\ ~last.cfg.without_saving
    /\ last.env.fail = "none"
    /\ last.env.status = 200
    /\ last.env.body = TokenOnlyBody
    /\ last.out.executed # <<>>
    /\ last.result = Err(RequestError)
    /\ StorageGet(storage, TOKEN_KEY) = Some("t2")
    /\ storage = last.before

\* C28: when a response with a status outside [200,300) has a body that does
\* not decode as {code, message, data}, send returns the request (decoding)
\* error, which is not an ApiError; and whatever its body, a response with
\* such a status is never returned to the caller as Ok.
C28_UndecodableErrorBody ==
    (SendReceived /\ ~IsSuccess(last.env.status))
        => /\ ~SendResult.ok
           /\ ~(IsJsonObject(last.env.body)
                    /\ {"code", "message", "data"} \subseteq DOMAIN last.env.body)
                 => /\ SendResult = Err(RequestError)
                    /\ SendResult.error.kind # "APIError"

C28_Witness ==
    /\ SendReceived
    /\ last.env.status = 400
    /\ last.env.body = PartialErrorBody
    /\ last.out.result = Err(RequestError)

\* the last operation was a send that handed its request to the chain.
SendEntered == last.op = "send" /\ last.out.entered # <<>>

LayerMarks == [i \in 1..Len(client) |-> <<"X-Test", client[i]>>]

\* C29: send decorates the request before the middleware chain and looks at
\* the status after it: the request that enters the chain, which no layer
\* has marked yet, carries Accept-Language with the client's locale and
\* Authorization when a token is stored (a token no header can carry leaves
\* the builder holding the error instead), so every layer's mark comes after
\* them in the request the transport executes; and a response with a status
\* outside [200,300) comes back through every layer as an ordinary response,
\* with its status and body, and only send turns it into an error.
C29_DecorateBeforeClassifyAfter ==
    /\ SendEntered =>
          LET e == last.out.entered[1]
          IN  /\ HeaderValues(e, "Accept-Language") = << <<"Accept-Language", lang>> >>
              /\ AuthorizationOf(e) =
                     IF HasToken(last.before) /\ IsHeaderValue(last.before[TOKEN_KEY])
                     THEN << <<"Authorization", last.before[TOKEN_KEY]>> >>
                     ELSE <<>>
              /\ (HasToken(last.before) /\ ~IsHeaderValue(last.before[TOKEN_KEY]))
                    => e.build_err
              /\ HeaderValues(e, "X-Test") = <<>>
              /\ SendExecuted => last.out.executed[1].headers = e.headers \o LayerMarks
    /\ (SendReceived /\ ~IsSuccess(last.env.status))
          => /\ SendEntered
             /\ last.out.returned[1].ok
             /\ last.out.returned[1].value.status = last.env.status
             /\ last.out.returned[1].value.body = last.env.body
             /\ last.out.returned[1].value.via = Reverse(client)
             /\ ~SendResult.ok

C29_Witness ==
    /\ SendReceived
    /\ last.env.status = 400
    /\ last.env.body \in ApiErrorBodies
    /\ Len(client) = 2
    /\ HasToken(last.before)
    /\ last.out.returned[1].ok
    /\ last.out.returned[1].value.via = Reverse(client)
    /\ SendResult.error.kind = "APIError"

\* the pairs of the query string that come from the caller: get_list puts
\* perPage and page before them.
CallerPairs(op, query) == IF op = "get_list" THEN SubSeq(query, 3, Len(query)) ELSE query

\* C30: for every operation whose config has query_params, of the record
\* service as of the admin service, the request sent carries exactly those
\* pairs in its query string, in the caller's order.
C30_QueryParamsSent ==
    (last.op \in ServiceOps /\ Len(Executed) = 1)
        => CallerPairs(last.op, Executed[1].query) = last.cfg.query_params

====
